---------------------------- MODULE Spec2Model ----------------------------
(***************************************************************************)
(* A model of scripts/validate-templates.py: the ValidationResult          *)
(* collector, the four validators (metadata.json, pipeline.yaml, wiki.MD,  *)
(* cross-file), template discovery and main().                             *)
(*                                                                         *)
(* Python strings are sequences of one-character strings, so that          *)
(* replace(), rstrip(), endswith() and the regular expressions are         *)
(* computed character by character.  A parsed JSON / YAML document is a    *)
(* tagged record (PyNone, PyInt, PyStr, PyList, PyDict); a dict keeps its  *)
(* keys in insertion order.  A message is the sequence of the chunks its   *)
(* f-string concatenates.  An exception no handler catches is the flag     *)
(* "raised" of a validator's outcome; main() lets it end the process.      *)
(***************************************************************************)
EXTENDS Integers, Sequences, FiniteSets, TLC

VARIABLES
    fs,             \* the templates directory: entry name -> directory entry
    root_exists,    \* whether the templates directory itself exists
    argv,           \* sys.argv[1:], a sequence of paths (entry names)
    hashseed,       \* the interpreter's string hash seed (PYTHONHASHSEED)
    pc,             \* where main() stands
    template_paths, \* main()'s template_paths
    idx,            \* position of main()'s for loop in template_paths (1-based)
    result,         \* the ValidationResult of the template being validated
    metadata,       \* validate_template's local: parsed metadata.json or None
    pipeline,       \* validate_template's local: parsed pipeline.yaml or None
    results,        \* main()'s results list
    out,            \* everything printed on stdout, one entry per print()
    summary,        \* main()'s locals of the summary section
    exit_code,      \* the process exit status (-1 while running)
    uncaught,       \* an exception reached the top of the interpreter
    events,         \* history: the calls made so far, in order
    run,            \* which invocation of the program this is (1 or 2)
    prev_out        \* history: stdout of the previous invocation

vars == << fs, root_exists, argv, hashseed, pc, template_paths, idx, result,
           metadata, pipeline, results, out, summary, exit_code, uncaught,
           events, run, prev_out >>

-----------------------------------------------------------------------------
(* Bounds of the model *)

\* longest sys.argv[1:] tried
MaxArgs == 2
\* longest 'stages' list tried
MaxStages == 2
\* most messages of one severity in the collector-only specification
MaxMsgs == 2

-----------------------------------------------------------------------------
(* Python strings *)

LowerAlphabet == << "a","b","c","d","e","f","g","h","i","j","k","l","m",
                    "n","o","p","q","r","s","t","u","v","w","x","y","z" >>
UpperAlphabet == << "A","B","C","D","E","F","G","H","I","J","K","L","M",
                    "N","O","P","Q","R","S","T","U","V","W","X","Y","Z" >>
DigitChars == << "0","1","2","3","4","5","6","7","8","9" >>

Range(s) == { s[i] : i \in DOMAIN s }

\* \s of the re module (ASCII whitespace)
Whitespace == { " ", "\t", "\n", "\r", "\f" }
\* \d and \w of the re module, on the ASCII characters the model uses
IsDigit(c) == c \in Range(DigitChars)
IsWord(c) == c \in Range(LowerAlphabet) \cup Range(UpperAlphabet)
                   \cup Range(DigitChars) \cup { "_" }

\* the code point order of the characters the model sorts on
CharOrder == << " ", "-", "." >> \o DigitChars \o UpperAlphabet \o << "_" >>
             \o LowerAlphabet
Ord(c) == CHOOSE i \in DOMAIN CharOrder : CharOrder[i] = c

\* str < str: lexicographic on code points
RECURSIVE StrLess(_, _)
StrLess(a, b) ==
    IF b = << >> THEN FALSE
    ELSE IF a = << >> THEN TRUE
    ELSE IF Head(a) = Head(b) THEN StrLess(Tail(a), Tail(b))
    ELSE Ord(Head(a)) < Ord(Head(b))

\* s.replace(old, new) for one-character old and new
Replace(s, old, new) == [ i \in DOMAIN s |-> IF s[i] = old THEN new ELSE s[i] ]

\* s.lower()
LowerChar(c) ==
    IF c \in Range(UpperAlphabet)
    THEN LowerAlphabet[CHOOSE i \in DOMAIN UpperAlphabet : UpperAlphabet[i] = c]
    ELSE c
Lower(s) == [ i \in DOMAIN s |-> LowerChar(s[i]) ]

\* s.rstrip()
RECURSIVE RStrip(_)
RStrip(s) ==
    IF s # << >> /\ s[Len(s)] \in Whitespace
    THEN RStrip(SubSeq(s, 1, Len(s) - 1))
    ELSE s

\* s.endswith(suffix), s.startswith(prefix)
EndsWith(s, suffix) ==
    /\ Len(suffix) <= Len(s)
    /\ SubSeq(s, Len(s) - Len(suffix) + 1, Len(s)) = suffix
StartsWith(s, prefix) ==
    /\ Len(prefix) <= Len(s)
    /\ SubSeq(s, 1, Len(prefix)) = prefix

\* whether s holds lit at position p
LitAt(s, p, lit) ==
    /\ p + Len(lit) - 1 <= Len(s)
    /\ SubSeq(s, p, p + Len(lit) - 1) = lit

\* sub in s, for two strings
IsSubstring(sub, s) == \E p \in 1..(Len(s) + 1) : LitAt(s, p, sub)

\* str(n) for n >= 0
RECURSIVE IntStr(_)
IntStr(n) ==
    IF n < 10 THEN << DigitChars[n + 1] >>
    ELSE IntStr(n \div 10) \o << DigitChars[(n % 10) + 1] >>

\* "$" without re.MULTILINE matches at the end and before a final newline:
\* the strings a pattern "^...$" is tried on in full
DollarCandidates(s) ==
    { s } \cup (IF s # << >> /\ s[Len(s)] = "\n"
                THEN { SubSeq(s, 1, Len(s) - 1) } ELSE { })

\* re.match(r'^[a-z0-9 ]+$', s)
InNameClass(c) == c \in Range(LowerAlphabet) \cup Range(DigitChars) \cup { " " }
MatchesNamePattern(s) ==
    \E t \in DollarCandidates(s) :
        t # << >> /\ \A i \in DOMAIN t : InNameClass(t[i])

\* re.match(r'^\d+\.\d+\.\d+$', s)
AllDigits(t) == t # << >> /\ \A i \in DOMAIN t : IsDigit(t[i])
MatchesSemver(s) ==
    \E t \in DollarCandidates(s) :
        \E p \in DOMAIN t : \E q \in DOMAIN t :
            /\ p < q
            /\ t[p] = "." /\ t[q] = "."
            /\ AllDigits(SubSeq(t, 1, p - 1))
            /\ AllDigits(SubSeq(t, p + 1, q - 1))
            /\ AllDigits(SubSeq(t, q + 1, Len(t)))

-----------------------------------------------------------------------------
(* Python values: what json.load and yaml.safe_load return *)

PyNone == [ t |-> "none" ]
PyInt(n) == [ t |-> "int", n |-> n ]
PyStr(s) == [ t |-> "str", s |-> s ]
PyList(l) == [ t |-> "list", l |-> l ]
\* keys: the key strings in insertion order; vals: their values
PyDict(keys, vals) == [ t |-> "dict", k |-> keys, v |-> vals ]

\* isinstance(v, dict), isinstance(v, list), isinstance(v, str)
IsDict(v) == v.t = "dict"
IsList(v) == v.t = "list"
IsStr(v) == v.t = "str"

\* "key in v" raises TypeError unless v is a container or a string
SupportsIn(v) == v.t \in { "dict", "list", "str" }
\* "key in v" for a string key: a key of a dict, an element of a list, a
\* substring of a string
PyIn(key, v) ==
    CASE v.t = "dict" -> \E i \in DOMAIN v.k : v.k[i] = key
      [] v.t = "list" -> \E i \in DOMAIN v.l : v.l[i] = PyStr(key)
      [] v.t = "str"  -> IsSubstring(key, v.s)
      [] OTHER        -> FALSE

\* v[key] for a string key raises TypeError unless v is a dict
SupportsGetItem(v) == v.t = "dict"
\* d[key] for a dict d that has the key
GetItem(d, key) == d.v[CHOOSE i \in DOMAIN d.k : d.k[i] = key]
\* d.get(key, default) for a dict d
DictGet(d, key, default) == IF PyIn(key, d) THEN GetItem(d, key) ELSE default

\* hash(v) raises TypeError for a list or a dict
Hashable(v) == v.t \notin { "list", "dict" }

RECURSIVE PyRepr(_)
RECURSIVE ReprList(_)
RECURSIVE ReprItems(_, _)
\* repr(v), as chunks (strings hold no quote or backslash in the model)
PyRepr(v) ==
    CASE v.t = "none" -> << "None" >>
      [] v.t = "int"  -> IntStr(v.n)
      [] v.t = "str"  -> << "'" >> \o v.s \o << "'" >>
      [] v.t = "list" -> << "[" >> \o ReprList(v.l) \o << "]" >>
      [] v.t = "dict" -> << "{" >> \o ReprItems(v.k, v.v) \o << "}" >>
\* ", ".join(repr(e) for e in l)
ReprList(l) ==
    IF l = << >> THEN << >>
    ELSE IF Len(l) = 1 THEN PyRepr(l[1])
    ELSE PyRepr(l[1]) \o << ", " >> \o ReprList(Tail(l))
ReprItems(keys, vals) ==
    IF keys = << >> THEN << >>
    ELSE LET item == << "'" >> \o keys[1] \o << "': " >> \o PyRepr(vals[1])
         IN  IF Len(keys) = 1 THEN item
             ELSE item \o << ", " >> \o ReprItems(Tail(keys), Tail(vals))

\* what an f-string puts for {v}: str(v)
PyFormat(v) == IF v.t = "str" THEN v.s ELSE PyRepr(v)

\* l.count(x)
Count(l, x) == Cardinality({ i \in DOMAIN l : l[i] = x })

\* [name for name in names if names.count(name) > 1]
DuplicatesOf(names) ==
    SelectSeq(names, LAMBDA n : Count(names, n) > 1)

\* the distinct elements of l, in the order of their first occurrence
RECURSIVE Distinct(_)
Distinct(l) ==
    IF l = << >> THEN << >>
    ELSE LET rest == Distinct(SubSeq(l, 1, Len(l) - 1))
             last == l[Len(l)]
         IN  IF \E i \in DOMAIN rest : rest[i] = last THEN rest
             ELSE Append(rest, last)

Reverse(l) == [ i \in DOMAIN l |-> l[Len(l) + 1 - i] ]

\* The seeds the interpreter may draw for str hashes.  Two stand for all:
\* they put any two strings of a set in the two possible orders.
HashSeeds == { 0, 1 }

\* The iteration order of set(l) under a hash seed.  Strings hash by the
\* seed, so the order of a set of strings differs from one seed to another.
SetIterationOrder(l, seed) ==
    IF seed = 0 THEN Distinct(l) ELSE Reverse(Distinct(l))

\* str(set(l)) for a non-empty l of hashable values
SetRepr(l, seed) ==
    << "{" >> \o ReprList(SetIterationOrder(l, seed)) \o << "}" >>

-----------------------------------------------------------------------------
(* class ValidationResult *)

ValidationResult(template_name) ==
    [ template_name |-> template_name,
      errors   |-> << >>,
      warnings |-> << >>,
      passes   |-> << >> ]

add_error(r, message) == [ r EXCEPT !.errors = Append(@, message) ]

\* a wrong add_warning, which files the message under the errors
add_warning_as_error(r, message) == [ r EXCEPT !.errors = Append(@, message) ]

add_warning(r, message) == [ r EXCEPT !.warnings = Append(@, message) ]

add_pass(r, message) == [ r EXCEPT !.passes = Append(@, message) ]

\* a wrong is_valid, which lets a warning invalidate the template
is_valid_without_warnings(r) == Len(r.errors) = 0 /\ Len(r.warnings) = 0

is_valid(r) == Len(r.errors) = 0

\* the markers stand for the emoji the script prints
PassMark == "  <U+2705> "
WarnMark == "  <U+26A0>  "
ErrorMark == "  <U+274C> "

StatusLine(r) ==
    IF is_valid(r) THEN << "  Status: PASSED" >> ELSE << "  Status: FAILED" >>

\* the lines print_report prints, one per print() call
print_report(r) ==
    << << "\n## Template: " >> \o r.template_name,
       << "--------------------------------------------------" >> >>
    \o [ i \in DOMAIN r.passes |-> << PassMark >> \o r.passes[i] ]
    \o [ i \in DOMAIN r.warnings |-> << WarnMark >> \o r.warnings[i] ]
    \o [ i \in DOMAIN r.errors |-> << ErrorMark >> \o r.errors[i] ]
    \o << << "\n  Summary: " >> \o IntStr(Len(r.errors)) \o << " errors, " >>
             \o IntStr(Len(r.warnings)) \o << " warnings" >>,
          StatusLine(r) >>

-----------------------------------------------------------------------------
(* The strings the script names *)

K_name == << "n", "a", "m", "e" >>
K_description == << "d", "e", "s", "c", "r", "i", "p", "t", "i", "o", "n" >>
K_version == << "v", "e", "r", "s", "i", "o", "n" >>
K_pipeline == << "p", "i", "p", "e", "l", "i", "n", "e" >>
K_stages == << "s", "t", "a", "g", "e", "s" >>
K_platform == << "p", "l", "a", "t", "f", "o", "r", "m" >>
K_os == << "o", "s" >>
K_arch == << "a", "r", "c", "h" >>
K_steps == << "s", "t", "e", "p", "s" >>
K_run == << "r", "u", "n" >>
K_container == << "c", "o", "n", "t", "a", "i", "n", "e", "r" >>
K_image == << "i", "m", "a", "g", "e" >>
K_inputs == << "i", "n", "p", "u", "t", "s" >>
K_type == << "t", "y", "p", "e" >>
K_string == << "s", "t", "r", "i", "n", "g" >>
K_secret == << "s", "e", "c", "r", "e", "t" >>
K_connector == << "c", "o", "n", "n", "e", "c", "t", "o", "r" >>
K_colon_latest == << ":", "l", "a", "t", "e", "s", "t" >>
K_overview == << "o", "v", "e", "r", "v", "i", "e", "w" >>
K_key_capabilities == << "k", "e", "y", " ", "c", "a", "p", "a", "b", "i", "l",
                         "i", "t", "i", "e", "s" >>

\* the text of the parser's exception, {e} in the messages
ParserMessage == "<parser message>"
\* the text of the OSError, {e} in the wiki.MD message
OSErrorMessage == "<os error>"

-----------------------------------------------------------------------------
(* A template directory and its files.                                     *)
(* A file is [st |-> "absent"], [st |-> "unreadable"] (it exists and       *)
(* open() or read() raises), [st |-> "syntax_error"] (the parser rejects   *)
(* it), [st |-> "ok", doc |-> value] (what the parser returns) or, for     *)
(* wiki.MD, [st |-> "ok", text |-> content].                               *)

Absent == [ st |-> "absent" ]
Unreadable == [ st |-> "unreadable" ]
SyntaxError == [ st |-> "syntax_error" ]
Parsed(doc) == [ st |-> "ok", doc |-> doc ]
Text(content) == [ st |-> "ok", text |-> content ]

\* Path.exists() of a file below the template path
FileExists(f) == f.st # "absent"

\* what a validator did: the collector after it, the value it returned,
\* and whether it raised instead of returning
Returned(r, value) == [ result |-> r, ret |-> value, raised |-> FALSE ]
Raised(r) == [ result |-> r, ret |-> PyNone, raised |-> TRUE ]

\* the running state inside a validator
Running(r) == [ r |-> r, raised |-> FALSE ]
\* how a validator ends in state s: the exception leaves it, or it returns
Outcome(s, value) == IF s.raised THEN Raised(s.r) ELSE Returned(s.r, value)
Raise(s) == [ s EXCEPT !.raised = TRUE ]
Error(s, message) == [ s EXCEPT !.r = add_error(@, message) ]
Warning(s, message) == [ s EXCEPT !.r = add_warning(@, message) ]
Pass(s, message) == [ s EXCEPT !.r = add_pass(@, message) ]

-----------------------------------------------------------------------------
(* validate_metadata_json *)

\* template_dir.name.replace('-', ' ')
ExpectedName(d) == Replace(d.name, "-", " ")

\* the loop over required_fields
RECURSIVE MetadataRequiredFields(_, _, _)
MetadataRequiredFields(md, fields, s) ==
    IF fields = << >> \/ s.raised THEN s
    ELSE IF ~SupportsIn(md) THEN Raise(s)
    ELSE MetadataRequiredFields(md, Tail(fields),
             IF ~PyIn(Head(fields), md)
             THEN Error(s, << "metadata.json: Missing required field '" >>
                            \o Head(fields) \o << "'" >>)
             ELSE s)

\* the comparison of 'name' with the directory name
NameMatchesDirectory(d, name, s) ==
    IF name # ExpectedName(d)
    THEN Warning(s, << "metadata.json: 'name' should match directory name. Expected: '" >>
                     \o ExpectedName(d) \o << "', Got: '" >> \o name \o << "'" >>)
    ELSE s

\* the 'name' block
MetadataName(d, md, s) ==
    IF s.raised \/ ~PyIn(K_name, md) THEN s
    ELSE IF ~SupportsGetItem(md) THEN Raise(s)
    ELSE LET name == GetItem(md, K_name)
         IN  IF ~IsStr(name) THEN Raise(s)
             ELSE NameMatchesDirectory(d, name.s,
                      IF ~MatchesNamePattern(name.s)
                      THEN Error(s, << "metadata.json: 'name' must be lowercase alphanumeric with spaces only. Got: '" >>
                                     \o name.s \o << "'" >>)
                      ELSE Pass(s, << "metadata.json: 'name' follows naming conventions" >>))

\* the 'description' block
MetadataDescription(md, s) ==
    IF s.raised \/ ~PyIn(K_description, md) THEN s
    ELSE IF ~SupportsGetItem(md) THEN Raise(s)
    ELSE LET desc == GetItem(md, K_description)
         IN  IF ~IsStr(desc) THEN Raise(s)
             ELSE IF ~(\E c \in { ".", "!", "?" } : EndsWith(RStrip(desc.s), << c >>))
             THEN Warning(s, << "metadata.json: 'description' should end with punctuation" >>)
             ELSE Pass(s, << "metadata.json: 'description' has proper punctuation" >>)

\* the 'version' block
MetadataVersion(md, s) ==
    IF s.raised \/ ~PyIn(K_version, md) THEN s
    ELSE IF ~SupportsGetItem(md) THEN Raise(s)
    ELSE LET version == GetItem(md, K_version)
         IN  IF ~IsStr(version) THEN Raise(s)
             ELSE IF ~MatchesSemver(version.s)
             THEN Error(s, << "metadata.json: 'version' must follow semver (MAJOR.MINOR.PATCH). Got: '" >>
                            \o version.s \o << "'" >>)
             ELSE Pass(s, << "metadata.json: 'version' follows semver format" >>)

validate_metadata_json(d, r) ==
    IF ~FileExists(d.metadata)
    THEN Returned(add_error(r, << "metadata.json: File not found (required)" >>), PyNone)
    ELSE IF d.metadata.st = "unreadable" THEN Raised(r)
    ELSE IF d.metadata.st = "syntax_error"
    THEN Returned(add_error(r, << "metadata.json: Invalid JSON syntax - ", ParserMessage >>), PyNone)
    ELSE Outcome(
             MetadataVersion(d.metadata.doc,
               MetadataDescription(d.metadata.doc,
                 MetadataName(d, d.metadata.doc,
                   MetadataRequiredFields(d.metadata.doc,
                     << K_name, K_description, K_version >>,
                     Running(add_pass(r, << "metadata.json: Valid JSON syntax" >>)))))),
             d.metadata.doc)

-----------------------------------------------------------------------------
(* validate_pipeline_yaml *)

\* the 'version' check
PipelineVersion(doc, s) ==
    IF ~PyIn(K_version, doc)
    THEN Error(s, << "pipeline.yaml: Missing 'version' field at top level" >>)
    ELSE IF GetItem(doc, K_version) # PyInt(1)
    THEN Warning(s, << "pipeline.yaml: Expected 'version: 1', got '" >>
                     \o PyFormat(GetItem(doc, K_version)) \o << "'" >>)
    ELSE Pass(s, << "pipeline.yaml: 'version: 1' present" >>)

\* {stage.get('name', i)} and {step.get('name', j)}
NameOrIndex(mapping, i) == PyFormat(DictGet(mapping, K_name, PyInt(i)))

\* one "key not in platform" check
PlatformKey(stage, i, platform, key, s) ==
    IF ~PyIn(key, platform)
    THEN Warning(s, << "pipeline.yaml: Stage '" >> \o NameOrIndex(stage, i)
                     \o << "' platform missing '" >> \o key \o << "'" >>)
    ELSE s

\* the 'platform' block of one stage
StagePlatform(stage, i, s) ==
    IF s.raised \/ ~PyIn(K_platform, stage) THEN s
    ELSE LET platform == GetItem(stage, K_platform)
         IN  IF ~SupportsIn(platform) THEN Raise(s)
             ELSE PlatformKey(stage, i, platform, K_arch,
                      PlatformKey(stage, i, platform, K_os, s))

\* the ':latest' check of one step
StepImage(step, j, s) ==
    IF ~(PyIn(K_run, step) /\ IsDict(GetItem(step, K_run))) THEN s
    ELSE LET run_ == GetItem(step, K_run)
         IN  IF ~(PyIn(K_container, run_) /\ IsDict(GetItem(run_, K_container))) THEN s
             ELSE LET image == DictGet(GetItem(run_, K_container), K_image, PyStr(<< >>))
                  IN  IF ~IsStr(image) THEN Raise(s)
                      ELSE IF EndsWith(image.s, K_colon_latest)
                      THEN Warning(s, << "pipeline.yaml: Step '" >> \o NameOrIndex(step, j)
                                       \o << "' uses ':latest' tag. Consider using explicit version tags." >>)
                      ELSE s

\* the loop over a stage's steps; s.names is step_names, j counts from 0
RECURSIVE StepsLoop(_, _, _, _)
StepsLoop(steps, j, stage_label, s) ==
    IF steps = << >> \/ s.raised THEN s
    ELSE StepsLoop(Tail(steps), j + 1, stage_label,
             IF ~IsDict(Head(steps)) THEN s
             ELSE StepImage(Head(steps), j,
                      IF ~PyIn(K_name, Head(steps))
                      THEN Warning(s, << "pipeline.yaml: Step " >> \o IntStr(j)
                                       \o << " in stage '" >> \o stage_label
                                       \o << "' missing 'name'" >>)
                      ELSE [ s EXCEPT !.names = Append(@, GetItem(Head(steps), K_name)) ]))

\* iterating a str or a dict yields strings, which the loop skips; iterating
\* anything but a list, a str or a dict raises TypeError
Iterable(v) == v.t \in { "list", "dict", "str" }
StepsIteration(v) == IF IsList(v) THEN v.l ELSE << >>

\* the duplicate check on recorded names: one error rendering set(duplicates)
DuplicateNames(duplicates, prefix, otherwise_pass, s) ==
    IF s.raised THEN s
    ELSE IF duplicates # << >>
    THEN IF \E k \in DOMAIN duplicates : ~Hashable(duplicates[k])
         THEN Raise(s)
         ELSE Error(s, prefix \o SetRepr(duplicates, hashseed))
    ELSE IF otherwise_pass
    THEN Pass(s, << "pipeline.yaml: All stage names are unique" >>)
    ELSE s

\* the duplicate check on the names a loop recorded in s.names
CheckRecordedNames(prefix, otherwise_pass, s) ==
    DuplicateNames(DuplicatesOf(s.names), prefix, otherwise_pass, s)

\* back from a loop: the collector and the exception, the outer names kept
EndLoop(outer, inner) == [ outer EXCEPT !.r = inner.r, !.raised = inner.raised ]

\* the 'steps' block of one stage
StageSteps(stage, i, s) ==
    IF s.raised \/ ~PyIn(K_steps, stage) THEN s
    ELSE LET steps == DictGet(stage, K_steps, PyList(<< >>))
         IN  IF ~Iterable(steps) THEN Raise(s)
             ELSE EndLoop(s,
                      CheckRecordedNames(
                          << "pipeline.yaml: Duplicate step names in stage '" >>
                          \o NameOrIndex(stage, i) \o << "': " >>,
                          FALSE,
                          StepsLoop(StepsIteration(steps), 0, NameOrIndex(stage, i),
                                    [ r |-> s.r, raised |-> FALSE, names |-> << >> ])))

\* the loop over stages; s.names is stage_names, i counts from 0
RECURSIVE StagesLoop(_, _, _)
StagesLoop(stages, i, s) ==
    IF stages = << >> \/ s.raised THEN s
    ELSE StagesLoop(Tail(stages), i + 1,
             IF ~IsDict(Head(stages))
             THEN Error(s, << "pipeline.yaml: Stage " >> \o IntStr(i)
                            \o << " must be a mapping" >>)
             ELSE StageSteps(Head(stages), i,
                    StagePlatform(Head(stages), i,
                      IF ~PyIn(K_name, Head(stages))
                      THEN Error(s, << "pipeline.yaml: Stage " >> \o IntStr(i)
                                     \o << " missing 'name' field" >>)
                      ELSE [ s EXCEPT !.names = Append(@, GetItem(Head(stages), K_name)) ])))

\* the 'stages' block
PipelineStages(section, s) ==
    IF ~SupportsIn(section) THEN Raise(s)
    ELSE IF ~PyIn(K_stages, section)
    THEN Error(s, << "pipeline.yaml: Missing 'stages' in pipeline" >>)
    ELSE IF ~SupportsGetItem(section) THEN Raise(s)
    ELSE LET stages == GetItem(section, K_stages)
         IN  IF ~IsList(stages)
             THEN Error(s, << "pipeline.yaml: 'stages' must be a list" >>)
             ELSE EndLoop(s,
                      CheckRecordedNames(
                          << "pipeline.yaml: Duplicate stage names: " >>, TRUE,
                          StagesLoop(stages.l, 0,
                                     [ r |-> s.r, raised |-> FALSE, names |-> << >> ])))

\* the 'description' check of one input
InputDescription(input_name, input_def, s) ==
    IF ~PyIn(K_description, input_def)
    THEN Warning(s, << "pipeline.yaml: Input '" >> \o input_name
                     \o << "' missing description (recommended)" >>)
    ELSE s

\* the checks of one input
InputChecks(input_name, input_def, s) ==
    IF ~IsDict(input_def)
    THEN Warning(s, << "pipeline.yaml: Input '" >> \o input_name
                     \o << "' should be a mapping" >>)
    ELSE InputDescription(input_name, input_def,
             IF ~PyIn(K_type, input_def)
             THEN Warning(s, << "pipeline.yaml: Input '" >> \o input_name
                              \o << "' missing 'type' field" >>)
             ELSE IF GetItem(input_def, K_type)
                       \notin { PyStr(K_string), PyStr(K_secret), PyStr(K_connector) }
             THEN Warning(s, << "pipeline.yaml: Input '" >> \o input_name
                              \o << "' has unknown type '" >>
                              \o PyFormat(GetItem(input_def, K_type))
                              \o << "'. Expected: string, secret, or connector" >>)
             ELSE s)

\* the loop over inputs.items()
RECURSIVE InputsLoop(_, _, _)
InputsLoop(keys, vals, s) ==
    IF keys = << >> THEN s
    ELSE InputsLoop(Tail(keys), Tail(vals), InputChecks(Head(keys), Head(vals), s))

\* the 'inputs' block
PipelineInputs(section, s) ==
    IF s.raised THEN s
    ELSE IF ~PyIn(K_inputs, section)
    THEN Warning(s, << "pipeline.yaml: No 'inputs' section defined" >>)
    ELSE IF ~SupportsGetItem(section) THEN Raise(s)
    ELSE LET inputs == GetItem(section, K_inputs)
         IN  IF ~IsDict(inputs) THEN s
             ELSE InputsLoop(inputs.k, inputs.v,
                      Pass(s, << "pipeline.yaml: " >> \o IntStr(Len(inputs.k))
                               \o << " inputs defined" >>))

\* the 'pipeline' section and what follows it
PipelineSection(doc, s) ==
    IF ~PyIn(K_pipeline, doc)
    THEN Returned(add_error(s.r, << "pipeline.yaml: Missing 'pipeline' section" >>), doc)
    ELSE Outcome(PipelineInputs(GetItem(doc, K_pipeline),
                     PipelineStages(GetItem(doc, K_pipeline), s)),
                 doc)

\* the checks on the parsed document
PipelineDocument(doc, r) ==
    IF ~IsDict(doc)
    THEN Returned(add_error(r, << "pipeline.yaml: Root must be a mapping/object" >>), PyNone)
    ELSE PipelineSection(doc, PipelineVersion(doc, Running(r)))

\* a wrong validate_pipeline_yaml, which does nothing once the result holds
\* an error
validate_pipeline_yaml_if_valid(d, r) ==
    IF ~is_valid(r) THEN Returned(r, PyNone)
    ELSE IF ~FileExists(d.pipeline)
    THEN Returned(add_error(r, << "pipeline.yaml: File not found (required)" >>), PyNone)
    ELSE IF d.pipeline.st = "unreadable" THEN Raised(r)
    ELSE IF d.pipeline.st = "syntax_error"
    THEN Returned(add_error(r, << "pipeline.yaml: Invalid YAML syntax - ", ParserMessage >>), PyNone)
    ELSE PipelineDocument(d.pipeline.doc,
                          add_pass(r, << "pipeline.yaml: Valid YAML syntax" >>))

validate_pipeline_yaml(d, r) ==
    IF ~FileExists(d.pipeline)
    THEN Returned(add_error(r, << "pipeline.yaml: File not found (required)" >>), PyNone)
    ELSE IF d.pipeline.st = "unreadable" THEN Raised(r)
    ELSE IF d.pipeline.st = "syntax_error"
    THEN Returned(add_error(r, << "pipeline.yaml: Invalid YAML syntax - ", ParserMessage >>), PyNone)
    ELSE PipelineDocument(d.pipeline.doc,
                          add_pass(r, << "pipeline.yaml: Valid YAML syntax" >>))

-----------------------------------------------------------------------------
(* validate_wiki_md *)

\* "^" under re.MULTILINE: the start of the text or just after a newline
LineStart(content, p) == p = 1 \/ content[p - 1] = "\n"

\* positions p+1 .. p+m all hold whitespace
WhitespaceRun(content, p, m) ==
    /\ p + m <= Len(content)
    /\ \A q \in (p + 1)..(p + m) : content[q] \in Whitespace

\* re.search(r'^#\s+.+', content, re.MULTILINE)
HasTitle(content) ==
    \E p \in DOMAIN content :
        /\ LineStart(content, p)
        /\ content[p] = "#"
        /\ \E m \in 1..Len(content) :
              /\ WhitespaceRun(content, p, m)
              /\ p + m + 1 <= Len(content)
              /\ content[p + m + 1] # "\n"

\* re.search(rf'^##\s+{section}', content_lower, re.MULTILINE)
HasSection(content_lower, section) ==
    \E p \in DOMAIN content_lower :
        /\ LineStart(content_lower, p)
        /\ LitAt(content_lower, p, << "#", "#" >>)
        /\ \E m \in 1..Len(content_lower) :
              /\ WhitespaceRun(content_lower, p + 1, m)
              /\ LitAt(content_lower, p + 2 + m, section)

\* the last position of the longest run of \w characters starting at q
RECURSIVE WordRunEnd(_, _)
WordRunEnd(content, q) ==
    IF q <= Len(content) /\ IsWord(content[q])
    THEN WordRunEnd(content, q + 1)
    ELSE q - 1

\* the grave accent character, which a string literal here cannot hold
Backtick == "<grave>"

\* re.findall of three grave accents, (\w*), newline, from position p on:
\* the language tags of the non-overlapping matches, left to right
RECURSIVE CodeBlocks(_, _)
CodeBlocks(content, p) ==
    IF p > Len(content) THEN << >>
    ELSE IF LitAt(content, p, << Backtick, Backtick, Backtick >>)
    THEN (LET e == WordRunEnd(content, p + 3)
          IN  IF e + 1 <= Len(content) /\ content[e + 1] = "\n"
              THEN << SubSeq(content, p + 3, e) >> \o CodeBlocks(content, e + 2)
              ELSE CodeBlocks(content, p + 1))
    ELSE CodeBlocks(content, p + 1)

\* the loop over required_sections
RECURSIVE WikiSections(_, _, _)
WikiSections(content_lower, sections, r) ==
    IF sections = << >> THEN r
    ELSE WikiSections(content_lower, Tail(sections),
             IF HasSection(content_lower, Head(sections))
             THEN add_pass(r, << "wiki.MD: '" >> \o Head(sections) \o << "' section present" >>)
             ELSE add_warning(r, << "wiki.MD: Missing '" >> \o Head(sections)
                                 \o << "' section (recommended)" >>))

\* the title check
WikiTitle(content, r) ==
    IF ~HasTitle(content)
    THEN add_error(r, << "wiki.MD: Missing title (# heading)" >>)
    ELSE add_pass(r, << "wiki.MD: Title present" >>)

\* the check on the code blocks without a language tag
WikiCodeBlocks(unspecified, r) ==
    IF unspecified # << >>
    THEN add_warning(r, << "wiki.MD: " >> \o IntStr(Len(unspecified))
                        \o << " code block(s) missing language specifier" >>)
    ELSE add_pass(r, << "wiki.MD: All code blocks have language specifiers" >>)

validate_wiki_md(d, r, md) ==
    IF ~FileExists(d.wiki)
    THEN Returned(add_warning(r, << "wiki.MD: File not found (optional but recommended)" >>), PyNone)
    ELSE IF d.wiki.st = "unreadable"
    THEN Returned(add_error(r, << "wiki.MD: Cannot read file - ", OSErrorMessage >>), PyNone)
    ELSE Returned(
             WikiCodeBlocks(
                 SelectSeq(CodeBlocks(d.wiki.text, 1), LAMBDA lang : lang = << >>),
                 WikiSections(Lower(d.wiki.text),
                     << K_overview, K_key_capabilities, K_inputs >>,
                     WikiTitle(d.wiki.text,
                         add_pass(r, << "wiki.MD: File exists and is readable" >>)))),
             PyNone)

-----------------------------------------------------------------------------
(* validate_cross_file_consistency *)

\* metadata.get raises AttributeError unless metadata is a dict
\* a wrong validate_cross_file_consistency, which does not look at what
\* validate_pipeline_yaml returned
validate_cross_file_consistency_without_pipeline(d, r, md, pl) ==
    IF md = PyNone THEN Returned(r, PyNone)
    ELSE IF ~IsDict(md) THEN Raised(r)
    ELSE IF DictGet(md, K_name, PyNone) = PyStr(ExpectedName(d))
    THEN Returned(add_pass(r, << "Cross-file: metadata.json 'name' matches directory name" >>), PyNone)
    ELSE Returned(r, PyNone)

validate_cross_file_consistency(d, r, md, pl) ==
    IF md = PyNone \/ pl = PyNone THEN Returned(r, PyNone)
    ELSE IF ~IsDict(md) THEN Raised(r)
    ELSE IF DictGet(md, K_name, PyNone) = PyStr(ExpectedName(d))
    THEN Returned(add_pass(r, << "Cross-file: metadata.json 'name' matches directory name" >>), PyNone)
    ELSE Returned(r, PyNone)

-----------------------------------------------------------------------------
(* find_templates *)

\* item.is_dir() and not item.name.startswith('.') and one of the two
\* descriptor files exists
LooksLikeTemplate(item) ==
    /\ item.kind = "dir"
    /\ ~StartsWith(item.name, << "." >>)
    /\ (FileExists(item.metadata) \/ FileExists(item.pipeline))

\* a wrong sorted(paths): descending
RECURSIVE SortedDescending(_)
SortedDescending(paths) ==
    IF paths = { } THEN << >>
    ELSE LET greatest == CHOOSE x \in paths : \A y \in paths \ { x } : StrLess(y, x)
         IN  << greatest >> \o SortedDescending(paths \ { greatest })

\* sorted(paths): ascending, for a set of distinct paths
RECURSIVE Sorted(_)
Sorted(paths) ==
    IF paths = { } THEN << >>
    ELSE LET least == CHOOSE x \in paths : \A y \in paths \ { x } : StrLess(x, y)
         IN  << least >> \o Sorted(paths \ { least })

find_templates ==
    IF ~root_exists THEN << >>
    ELSE Sorted({ n \in DOMAIN fs : LooksLikeTemplate(fs[n]) })

-----------------------------------------------------------------------------
(* main() and validate_template, one action per call *)

\* the local not bound yet
Unbound == PyNone

NoSummary == [ printed |-> FALSE ]

\* template_path.exists()
PathExists(path) == path \in DOMAIN fs

\* the path main()'s loop stands on
CurrentPath == template_paths[idx]

RECURSIVE SumOf(_, _)
\* sum(len(r.<field>) for r in rs)
SumOf(rs, field) ==
    IF rs = << >> THEN 0 ELSE Len(Head(rs)[field]) + SumOf(Tail(rs), field)

Event(op) == [ op |-> op, at |-> idx, path |-> CurrentPath ]

\* an exception nothing catches: the interpreter prints the traceback on
\* stderr and exits with status 1
Crash ==
    /\ pc' = "exit"
    /\ exit_code' = 1
    /\ uncaught' = TRUE

\* validate_template after one of its calls, whose outcome is o: the value
\* bound to the local "target", and the next call or the end of the process
Called(o, target, next_pc) ==
    /\ result' = o.result
    /\ IF target = "metadata" THEN metadata' = o.ret /\ pipeline' = Unbound
       ELSE IF target = "pipeline" THEN pipeline' = o.ret /\ UNCHANGED metadata
       ELSE UNCHANGED << metadata, pipeline >>
    /\ IF o.raised THEN Crash
       ELSE pc' = next_pc /\ UNCHANGED << exit_code, uncaught >>

\* main(), lines 359-381: the paths, and the banner or "No templates found"
Main_Start ==
    /\ pc = "main"
    /\ LET paths == IF Len(argv) > 0 THEN argv ELSE find_templates
       IN  IF paths = << >>
           THEN /\ out' = Append(out, << "No templates found to validate." >>)
                /\ exit_code' = 0
                /\ pc' = "exit"
                /\ UNCHANGED << template_paths, idx >>
           ELSE /\ out' = out \o
                     << << "============================================================" >>,
                        << "Harness Agent Template Validation" >>,
                        << "============================================================" >>,
                        << "\nValidating " >> \o IntStr(Len(paths)) \o << " template(s)..." >> >>
                /\ template_paths' = paths
                /\ idx' = 1
                /\ pc' = "loop"
                /\ UNCHANGED exit_code
    /\ UNCHANGED << fs, root_exists, argv, hashseed, result, metadata, pipeline,
                    results, summary, uncaught, events, run, prev_out >>

\* main(), lines 383-386: a path that does not exist is reported and skipped
Main_SkipMissing ==
    /\ pc = "loop"
    /\ idx <= Len(template_paths)
    /\ ~PathExists(CurrentPath)
    /\ out' = Append(out, << "\nWarning: Template path does not exist: " >> \o CurrentPath)
    /\ idx' = idx + 1
    /\ UNCHANGED << fs, root_exists, argv, hashseed, pc, template_paths, result,
                    metadata, pipeline, results, summary, exit_code, uncaught,
                    events, run, prev_out >>

\* validate_template, lines 331-334: a fresh result, then metadata.json
Template_Metadata ==
    /\ pc = "loop"
    /\ idx <= Len(template_paths)
    /\ PathExists(CurrentPath)
    /\ Called(validate_metadata_json(fs[CurrentPath],
                                      ValidationResult(fs[CurrentPath].name)),
              "metadata", "pipeline")
    /\ events' = Append(events, Event("validate_metadata_json"))
    /\ UNCHANGED << fs, root_exists, argv, hashseed, template_paths, idx, results,
                    out, summary, run, prev_out >>

\* validate_template, line 335
Template_Pipeline ==
    /\ pc = "pipeline"
    /\ Called(validate_pipeline_yaml(fs[CurrentPath], result), "pipeline", "wiki")
    /\ events' = Append(events, Event("validate_pipeline_yaml"))
    /\ UNCHANGED << fs, root_exists, argv, hashseed, template_paths, idx,
                    results, out, summary, run, prev_out >>

\* validate_template, line 336
Template_Wiki ==
    /\ pc = "wiki"
    /\ Called(validate_wiki_md(fs[CurrentPath], result, metadata), "none", "cross")
    /\ events' = Append(events, Event("validate_wiki_md"))
    /\ UNCHANGED << fs, root_exists, argv, hashseed, template_paths, idx,
                    results, out, summary, run, prev_out >>

\* validate_template, lines 339-341
Template_CrossFile ==
    /\ pc = "cross"
    /\ Called(validate_cross_file_consistency(fs[CurrentPath], result, metadata, pipeline),
              "none", "report")
    /\ events' = Append(events, Event("validate_cross_file_consistency"))
    /\ UNCHANGED << fs, root_exists, argv, hashseed, template_paths, idx,
                    results, out, summary, run, prev_out >>

\* main(), lines 388-390: keep the result, print its report, next path
Main_Report ==
    /\ pc = "report"
    /\ results' = Append(results, result)
    /\ out' = out \o print_report(result)
    /\ events' = Append(events, Event("print_report"))
    /\ idx' = idx + 1
    /\ pc' = "loop"
    /\ UNCHANGED << fs, root_exists, argv, hashseed, template_paths, result,
                    metadata, pipeline, summary, exit_code, uncaught, run, prev_out >>

\* [r.template_name for r in rs]
TemplateNames(rs) == [ i \in DOMAIN rs |-> rs[i].template_name ]

\* main(), lines 392-416: the aggregate summary and the exit status
Main_Summary ==
    /\ pc = "loop"
    /\ idx > Len(template_paths)
    /\ LET total_errors == SumOf(results, "errors")
           total_warnings == SumOf(results, "warnings")
           passed == SelectSeq(results, LAMBDA r : is_valid(r))
           failed == SelectSeq(results, LAMBDA r : ~is_valid(r))
           counts == << << "\n============================================================" >>,
                        << "VALIDATION SUMMARY" >>,
                        << "============================================================" >>,
                        << "\nTemplates validated: " >> \o IntStr(Len(results)),
                        << "  Passed: " >> \o IntStr(Len(passed)),
                        << "  Failed: " >> \o IntStr(Len(failed)),
                        << "\nTotal errors: " >> \o IntStr(total_errors),
                        << "Total warnings: " >> \o IntStr(total_warnings) >>
       IN  /\ summary' = [ printed |-> TRUE,
                           validated |-> Len(results),
                           passed |-> Len(passed),
                           failed |-> Len(failed),
                           total_errors |-> total_errors,
                           total_warnings |-> total_warnings,
                           failed_names |-> TemplateNames(failed) ]
           /\ IF failed # << >>
              THEN /\ out' = out \o counts \o << << "\nFailed templates:" >> >>
                          \o [ i \in DOMAIN failed |-> << "  - " >> \o failed[i].template_name ]
                          \o << << "\n<U+274C> Validation FAILED" >> >>
                   /\ exit_code' = 1
              ELSE /\ out' = out \o counts
                          \o << << "\n<U+2705> All templates passed validation" >> >>
                   /\ exit_code' = 0
    /\ pc' = "exit"
    /\ UNCHANGED << fs, root_exists, argv, hashseed, template_paths, idx, result,
                    metadata, pipeline, results, uncaught, events, run, prev_out >>

\* the same command run again on the unchanged directory: a new process,
\* with a hash seed of its own
Rerun ==
    /\ pc = "exit"
    /\ run = 1
    /\ run' = 2
    /\ prev_out' = out
    /\ hashseed' \in HashSeeds
    /\ pc' = "main"
    /\ template_paths' = << >>
    /\ idx' = 1
    /\ result' = Unbound
    /\ metadata' = Unbound
    /\ pipeline' = Unbound
    /\ results' = << >>
    /\ out' = << >>
    /\ summary' = NoSummary
    /\ exit_code' = -1
    /\ uncaught' = FALSE
    /\ events' = << >>
    /\ UNCHANGED << fs, root_exists, argv >>

Next ==
    \/ Main_Start
    \/ Main_SkipMissing
    \/ Template_Metadata
    \/ Template_Pipeline
    \/ Template_Wiki
    \/ Template_CrossFile
    \/ Main_Report
    \/ Main_Summary

NextTwice == Next \/ Rerun

\* the state of a process that has just started, whatever it was given
Started ==
    /\ pc = "main"
    /\ hashseed \in HashSeeds
    /\ template_paths = << >>
    /\ idx = 1
    /\ result = Unbound
    /\ metadata = Unbound
    /\ pipeline = Unbound
    /\ results = << >>
    /\ out = << >>
    /\ summary = NoSummary
    /\ exit_code = -1
    /\ uncaught = FALSE
    /\ events = << >>
    /\ run = 1
    /\ prev_out = << >>

-----------------------------------------------------------------------------
(* The inputs the model is run on: names, texts, documents, directories *)

N_my_agent == << "m", "y", "-", "a", "g", "e", "n", "t" >>
N_b == << "b" >>
N_B_1 == << "B", "-", "1" >>
N_hidden == << ".", "c", "a", "c", "h", "e" >>
N_ghost == << "g", "h", "o", "s", "t" >>
T_my_agent == << "m", "y", " ", "a", "g", "e", "n", "t" >>
T_other == << "o", "t", "h", "e", "r" >>
T_does_things == << "D", "o", "e", "s", " ", "t", "h", "i", "n", "g",
    "s", "." >>
T_no_punctuation == << "t", "o", "d", "o" >>
T_1_0_0 == << "1", ".", "0", ".", "0" >>
T_1_0 == << "1", ".", "0" >>
T_a == << "a" >>
T_b == << "b" >>
T_s == << "s" >>
T_t == << "t" >>
T_x == << "x" >>
T_linux == << "l", "i", "n", "u", "x" >>
T_token == << "t", "o", "k", "e", "n" >>
T_oauth == << "o", "a", "u", "t", "h" >>
T_image_latest == << "i", "m", "g", ":", "l", "a", "t", "e", "s", "t" >>
WikiGood == << "#", " ", "T", "\n", "#", "#", " ", "O", "v", "e", "r",
    "v", "i", "e", "w", "\n", "#", "#", " ", "K", "e", "y", " ", "C",
    "a", "p", "a", "b", "i", "l", "i", "t", "i", "e", "s", "\n", "#",
    "#", " ", "I", "n", "p", "u", "t", "s", "\n" >>
WikiFenced == << "#", " ", "T", "\n", "#", "#", " ", "o", "v", "e", "r",
    "v", "i", "e", "w", "\n", Backtick, Backtick, Backtick, "s", "h",
    "\n", "l", "s", "\n", Backtick, Backtick, Backtick, "\n" >>
WikiNoTitle == << "#", "T", "\n", "#", "#", "I", "n", "p", "u", "t", "s",
    "\n" >>

\* a dict from << key, value >> pairs, in their order
DictFromPairs(pairs) ==
    PyDict([ i \in DOMAIN pairs |-> pairs[i][1] ], [ i \in DOMAIN pairs |-> pairs[i][2] ])

\* the sequences over S of length 0 .. n
SeqsUpTo(S, n) == UNION { [ 1..k -> S ] : k \in 0..n }

\* {"name": name, "description": "Does things.", "version": "1.0.0"}
MetadataDoc(name) ==
    DictFromPairs(<< << K_name, PyStr(name) >>,
                     << K_description, PyStr(T_does_things) >>,
                     << K_version, PyStr(T_1_0_0) >> >>)

StageNamed(name) == DictFromPairs(<< << K_name, PyStr(name) >> >>)

\* a step that names itself and runs an image tagged ':latest'
StepLatest(name) ==
    DictFromPairs(<< << K_name, PyStr(name) >>,
                     << K_run, DictFromPairs(<< << K_container,
                            DictFromPairs(<< << K_image, PyStr(T_image_latest) >> >>) >> >>) >> >>)

StageWithSteps(name, steps) ==
    DictFromPairs(<< << K_name, PyStr(name) >>, << K_steps, PyList(steps) >> >>)

\* token: {type: secret, description: ...}
InputsGood ==
    DictFromPairs(<< << T_token, DictFromPairs(<< << K_type, PyStr(K_secret) >>,
                                                  << K_description, PyStr(T_does_things) >> >>) >> >>)
\* token: {type: oauth}
InputsOauth ==
    DictFromPairs(<< << T_token, DictFromPairs(<< << K_type, PyStr(T_oauth) >> >>) >> >>)

\* {version: 1, pipeline: section}
PipelineDoc(section) ==
    DictFromPairs(<< << K_version, PyInt(1) >>, << K_pipeline, section >> >>)

\* a pipeline document no check complains about
PipelineGood ==
    PipelineDoc(DictFromPairs(<<
        << K_stages, PyList(<< DictFromPairs(<<
               << K_name, PyStr(T_a) >>,
               << K_platform, DictFromPairs(<< << K_os, PyStr(T_linux) >>,
                                               << K_arch, PyStr(T_x) >> >>) >>,
               << K_steps, PyList(<< StageNamed(T_s) >>) >> >>) >>) >>,
        << K_inputs, InputsGood >> >>))

\* a pipeline section that lacks 'stages'
PipelineNoStages == PipelineDoc(DictFromPairs(<< << K_inputs, InputsGood >> >>))

\* stages a, a, b, b: two names, each given twice
PipelineTwoDuplicates ==
    PipelineDoc(DictFromPairs(<<
        << K_stages, PyList(<< StageNamed(T_a), StageNamed(T_a),
                               StageNamed(T_b), StageNamed(T_b) >>) >>,
        << K_inputs, InputsGood >> >>))

\* one stage whose steps are s, s, t, t
PipelineTwoDuplicateSteps ==
    PipelineDoc(DictFromPairs(<<
        << K_stages, PyList(<< StageWithSteps(T_a,
               << StageNamed(T_s), StageNamed(T_s),
                  StageNamed(T_t), StageNamed(T_t) >>) >>) >>,
        << K_inputs, InputsGood >> >>))

Directory(name, metadata_file, pipeline_file, wiki_file) ==
    [ name |-> name, kind |-> "dir", metadata |-> metadata_file,
      pipeline |-> pipeline_file, wiki |-> wiki_file ]

\* a regular file where a directory is expected: nothing exists below it
RegularFile(name) ==
    [ name |-> name, kind |-> "file", metadata |-> Absent,
      pipeline |-> Absent, wiki |-> Absent ]

\* a template every check passes
ValidTemplate(name) ==
    Directory(name, Parsed(MetadataDoc(ExpectedName([ name |-> name ]))),
              Parsed(PipelineGood), Text(WikiGood))

\* the same but for a pipeline section without 'stages'
NoStagesTemplate(name) ==
    Directory(name, Parsed(MetadataDoc(ExpectedName([ name |-> name ]))),
              Parsed(PipelineNoStages), Text(WikiGood))

\* metadata.json whose 'name' is a number
NumericNameTemplate(name) ==
    Directory(name,
              Parsed(DictFromPairs(<< << K_name, PyInt(5) >>,
                                      << K_description, PyStr(T_does_things) >>,
                                      << K_version, PyStr(T_1_0_0) >> >>)),
              Parsed(PipelineGood), Text(WikiGood))

\* warnings and no error: no wiki.MD, a name that is not the directory's
WarningsTemplate(name) ==
    Directory(name, Parsed(MetadataDoc(T_other)), Parsed(PipelineGood), Absent)

\* a directory that holds a wiki.MD only: discovery passes it over
WikiOnlyDirectory(name) == Directory(name, Absent, Absent, Text(WikiNoTitle))

\* what may stand under a name in the templates directory
EntriesFor(name) ==
    { ValidTemplate(name), NoStagesTemplate(name), NumericNameTemplate(name),
      WarningsTemplate(name), WikiOnlyDirectory(name), RegularFile(name) }

\* the contents of the templates directory the main specification starts in
Filesystems ==
    UNION { { f \in [ names -> UNION { EntriesFor(n) : n \in names } ] :
                \A n \in names : f[n] \in (IF n = N_hidden THEN { ValidTemplate(n) }
                                           ELSE EntriesFor(n)) } :
            names \in SUBSET { N_b, N_my_agent, N_hidden } }

\* the command lines tried: no argument, or up to MaxArgs paths
CommandLines == SeqsUpTo({ N_b, N_my_agent, N_hidden, N_ghost }, MaxArgs)

Init ==
    /\ Started
    /\ root_exists \in BOOLEAN
    /\ fs \in (IF root_exists THEN Filesystems ELSE { << >> })
    /\ argv \in CommandLines

Spec == Init /\ [][Next]_vars

-----------------------------------------------------------------------------
(* validate_template as one function of the directory: what its four calls  *)
(* leave in the result and in the locals, or where an exception left them   *)

BindMetadata(o) ==
    [ result |-> o.result, metadata |-> o.ret, pipeline |-> Unbound, raised |-> o.raised ]
BindPipeline(t, o) ==
    [ t EXCEPT !.result = o.result, !.pipeline = o.ret, !.raised = o.raised ]
BindNothing(t, o) ==
    [ t EXCEPT !.result = o.result, !.raised = o.raised ]

TemplateMetadata(d) ==
    BindMetadata(validate_metadata_json(d, ValidationResult(d.name)))
TemplatePipeline(d, t) ==
    IF t.raised THEN t ELSE BindPipeline(t, validate_pipeline_yaml(d, t.result))
TemplateWiki(d, t) ==
    IF t.raised THEN t ELSE BindNothing(t, validate_wiki_md(d, t.result, t.metadata))
TemplateCrossFile(d, t) ==
    IF t.raised THEN t
    ELSE BindNothing(t, validate_cross_file_consistency(d, t.result, t.metadata, t.pipeline))

validate_template(d) ==
    TemplateCrossFile(d, TemplateWiki(d, TemplatePipeline(d, TemplateMetadata(d))))

-----------------------------------------------------------------------------
(* The command run twice on one unchanged directory *)

TwiceEntries ==
    { ValidTemplate(N_b),
      NumericNameTemplate(N_b),
      Directory(N_b, Parsed(MetadataDoc(N_b)), Parsed(PipelineTwoDuplicates), Absent),
      Directory(N_b, Parsed(MetadataDoc(N_b)), Parsed(PipelineTwoDuplicateSteps), Absent) }

InitTwice ==
    /\ Started
    /\ root_exists = TRUE
    /\ fs \in { [ n \in { N_b } |-> e ] : e \in TwiceEntries }
    /\ argv \in { << >>, << N_b >>, << N_ghost, N_b >> }

SpecTwice == InitTwice /\ [][NextTwice]_vars

-----------------------------------------------------------------------------
(* validate_pipeline_yaml on many pipeline documents *)

\* a 'stages' entry: not a mapping, nameless, named a or b, named with a
\* platform that is null or lacks 'arch', named with steps that repeat a
\* name and run ':latest', or named by a list
StageVariants ==
    { PyStr(T_x),
      DictFromPairs(<< << K_steps, PyList(<< PyStr(T_x), DictFromPairs(<< >>) >>) >> >>),
      StageNamed(T_a),
      StageNamed(T_b),
      DictFromPairs(<< << K_name, PyStr(T_a) >>, << K_platform, PyNone >> >>),
      DictFromPairs(<< << K_name, PyStr(T_b) >>,
                       << K_platform, DictFromPairs(<< << K_os, PyStr(T_linux) >> >>) >> >>),
      StageWithSteps(T_a, << StepLatest(T_s), StageNamed(T_s) >>),
      DictFromPairs(<< << K_name, PyList(<< PyStr(T_a) >>) >> >>) }

\* the 'stages' entry of the pipeline section: none, not a list, or a list
StagesEntries ==
    { << >>, << << K_stages, PyStr(T_x) >> >> }
    \cup { << << K_stages, PyList(l) >> >> : l \in SeqsUpTo(StageVariants, MaxStages) }

\* the 'inputs' entry of the pipeline section
InputsEntries ==
    { << >>,
      << << K_inputs, InputsOauth >> >>,
      << << K_inputs, PyList(<< >>) >> >> }

\* the documents whose 'pipeline' is a mapping
SectionDocuments ==
    { PipelineDoc(DictFromPairs(st \o inp)) : st \in StagesEntries, inp \in InputsEntries }

\* the documents that differ elsewhere: the root, 'version', 'pipeline'
OtherDocuments ==
    { PyNone,
      PyList(<< >>),
      DictFromPairs(<< << K_version, PyInt(1) >> >>),
      DictFromPairs(<< << K_version, PyInt(2) >> >>),
      DictFromPairs(<< << K_pipeline, DictFromPairs(<< << K_stages, PyList(<< >>) >> >>) >> >>),
      DictFromPairs(<< << K_version, PyStr(T_1_0) >>,
                       << K_pipeline, DictFromPairs(<< << K_inputs, InputsGood >> >>) >> >>),
      PipelineDoc(PyNone),
      PipelineDoc(PyStr(K_stages)),
      PipelineDoc(PyList(<< PyStr(K_inputs) >>)),
      PipelineGood,
      PipelineTwoDuplicates,
      PipelineTwoDuplicateSteps }

PipelineFiles ==
    { Absent, Unreadable, SyntaxError }
    \cup { Parsed(doc) : doc \in SectionDocuments \cup OtherDocuments }

InitPipeline ==
    /\ Started
    /\ root_exists = TRUE
    /\ \/ /\ fs \in { [ n \in { N_my_agent } |-> Directory(N_my_agent, m, p, Absent) ] :
                         m \in { Absent, Parsed(MetadataDoc(T_my_agent)) },
                         p \in PipelineFiles }
          /\ argv = << N_my_agent >>
       \/ /\ fs = << >>
          /\ argv = << N_ghost >>

SpecPipeline == InitPipeline /\ [][Next]_vars

-----------------------------------------------------------------------------
(* validate_metadata_json and the cross-file check on many descriptors *)

\* the 'name', 'description' and 'version' entries tried for a directory
NameEntries(dir_name) ==
    { << >>,
      << << K_name, PyStr(Replace(dir_name, "-", " ")) >> >>,
      << << K_name, PyStr(T_other) >> >>,
      << << K_name, PyInt(5) >> >> }
DescriptionEntries ==
    { << >>,
      << << K_description, PyStr(T_does_things) >> >>,
      << << K_description, PyStr(T_no_punctuation) >> >>,
      << << K_description, PyNone >> >> }
VersionEntries ==
    { << >>,
      << << K_version, PyStr(T_1_0_0) >> >>,
      << << K_version, PyStr(T_1_0) >> >>,
      << << K_version, PyInt(1) >> >> }

MetadataFiles(dir_name) ==
    { Absent, Unreadable, SyntaxError,
      Parsed(PyNone), Parsed(PyInt(5)), Parsed(PyStr(T_x)), Parsed(PyStr(K_name)),
      Parsed(PyList(<< >>)), Parsed(PyList(<< PyStr(K_version) >>)) }
    \cup { Parsed(DictFromPairs(n \o de \o v)) :
             n \in NameEntries(dir_name), de \in DescriptionEntries, v \in VersionEntries }

\* the pipeline files beside them: those that return nothing, return the
\* document, or raise
FewPipelineFiles ==
    { Absent, SyntaxError, Parsed(PyList(<< >>)), Parsed(PipelineGood),
      Parsed(DictFromPairs(<< << K_version, PyInt(1) >> >>)), Parsed(PipelineDoc(PyNone)) }

WikiFiles == { Absent, Unreadable, Text(WikiGood), Text(WikiFenced), Text(WikiNoTitle) }

InitMetadata ==
    /\ Started
    /\ root_exists = TRUE
    /\ \/ /\ fs \in UNION { { [ n \in { dir_name } |-> Directory(dir_name, m, p, w) ] :
                                m \in MetadataFiles(dir_name),
                                p \in FewPipelineFiles,
                                w \in WikiFiles } :
                            dir_name \in { N_my_agent, N_B_1 } }
          /\ argv = << >>
       \/ /\ fs = << >>
          /\ argv = << N_ghost >>

SpecMetadata == InitMetadata /\ [][Next]_vars

-----------------------------------------------------------------------------
(* A ValidationResult on its own: any calls of its methods, in any order.   *)
(* Here "out" holds what the latest print_report printed and "events" the   *)
(* latest call.                                                             *)

ResultMessages == { << "m" >> }

MethodCall(op) == << [ op |-> op, at |-> 0, path |-> << >> ] >>

Result_Update(op, r) ==
    /\ pc = "collector"
    /\ result' = r
    /\ events' = MethodCall(op)
    /\ UNCHANGED << fs, root_exists, argv, hashseed, pc, template_paths, idx, metadata,
                    pipeline, results, out, summary, exit_code, uncaught, run, prev_out >>

Result_AddError ==
    /\ Len(result.errors) < MaxMsgs
    /\ \E m \in ResultMessages : Result_Update("add_error", add_error(result, m))

Result_AddWarning ==
    /\ Len(result.warnings) < MaxMsgs
    /\ \E m \in ResultMessages : Result_Update("add_warning", add_warning(result, m))

Result_AddPass ==
    /\ Len(result.passes) < MaxMsgs
    /\ \E m \in ResultMessages : Result_Update("add_pass", add_pass(result, m))

Result_PrintReport ==
    /\ pc = "collector"
    /\ out' = print_report(result)
    /\ events' = MethodCall("print_report")
    /\ UNCHANGED << fs, root_exists, argv, hashseed, pc, template_paths, idx, result,
                    metadata, pipeline, results, summary, exit_code, uncaught, run,
                    prev_out >>

NextResult ==
    \/ Result_AddError
    \/ Result_AddWarning
    \/ Result_AddPass
    \/ Result_PrintReport

InitResult ==
    /\ pc = "collector"
    /\ result \in { ValidationResult(N_b), ValidationResult(N_my_agent) }
    /\ root_exists = FALSE
    /\ fs = << >>
    /\ argv = << >>
    /\ hashseed = 0
    /\ template_paths = << >>
    /\ idx = 1
    /\ metadata = Unbound
    /\ pipeline = Unbound
    /\ results = << >>
    /\ out = << >>
    /\ summary = NoSummary
    /\ exit_code = -1
    /\ uncaught = FALSE
    /\ events = << >>
    /\ run = 1
    /\ prev_out = << >>

SpecResult == InitResult /\ [][NextResult]_vars

-----------------------------------------------------------------------------
(* What the claims speak of *)

\* the latest call recorded
LastOp == IF events = << >> THEN "none" ELSE events[Len(events)].op

HasErrors(r) == r.errors # << >>

\* the supplied or discovered paths that exist, in order
ExistingPaths == SelectSeq(template_paths, PathExists)

\* the indices of a sequence whose element satisfies a test
Where(seq, Test(_)) == { k \in DOMAIN seq : Test(seq[k]) }

\* how many messages of a list are the message m
Occurrences(messages, m) == Cardinality({ k \in DOMAIN messages : messages[k] = m })

\* how many messages of a list begin with the chunk head
Beginning(messages, head) ==
    Cardinality({ k \in DOMAIN messages : messages[k] # << >> /\ messages[k][1] = head })

-----------------------------------------------------------------------------
(* C1, C2: the exit status and the exceptions nothing catches (Spec) *)

\* C1: when the process has ended, its exit status is 1 if some validated
\* template's result (those kept and the one validate_template was filling)
\* holds an error, and 0 otherwise.
C1_ExitStatusFollowsErrors ==
    pc = "exit" =>
        exit_code = (IF \/ \E k \in DOMAIN results : HasErrors(results[k])
                        \/ (result # Unbound /\ HasErrors(result))
                     THEN 1 ELSE 0)

\* C2: whatever the files of a template hold, no exception leaves
\* validate_template, and the run goes on to validate every path that exists
\* and to print the summary.
C2_NoContentIsFatal ==
    pc = "exit" =>
        /\ ~uncaught
        /\ Len(results) = Len(ExistingPaths)
        /\ (template_paths # << >> => summary.printed)

-----------------------------------------------------------------------------
(* C7: the aggregate summary (Spec) *)

\* the results validate_template yields for the existing paths, each template
\* validated on its own
ResultsAlone ==
    [ k \in DOMAIN ExistingPaths |-> validate_template(fs[ExistingPaths[k]]).result ]

MissingStagesAndValid ==
    /\ template_paths = << N_b, N_my_agent >>
    /\ { N_b, N_my_agent } \subseteq DOMAIN fs
    /\ fs[N_b] = NoStagesTemplate(N_b)
    /\ fs[N_my_agent] = ValidTemplate(N_my_agent)

\* C7: in the summary main() prints, the validated count is the number of
\* supplied paths that exist, passed + failed = validated, the totals are the
\* sums of the templates' error and warning counts, the failed names are the
\* templates with an error, in order, and the exit status is 1 exactly when
\* one failed; a template without 'stages' and a valid one give 1 failed,
\* 1 passed, at least one error and exit status 1.
C7_SummaryCounts ==
    summary.printed =>
        LET alone == ResultsAlone
        IN  /\ summary.validated = Len(ExistingPaths)
            /\ summary.validated = Len(results)
            /\ summary.passed + summary.failed = summary.validated
            /\ summary.failed = Cardinality(Where(alone, HasErrors))
            /\ summary.total_errors = SumOf(alone, "errors")
            /\ summary.total_warnings = SumOf(alone, "warnings")
            /\ summary.failed_names = TemplateNames(SelectSeq(alone, HasErrors))
            /\ exit_code = (IF summary.failed > 0 THEN 1 ELSE 0)
            /\ MissingStagesAndValid =>
                  /\ summary.failed = 1
                  /\ summary.passed = 1
                  /\ summary.total_errors >= 1
                  /\ exit_code = 1

\* the summary of a template without 'stages', a valid one and a path that
\* does not exist
C7_Witness ==
    /\ summary.printed
    /\ \E k \in DOMAIN template_paths : ~PathExists(template_paths[k])
    /\ \E k \in DOMAIN template_paths :
          /\ PathExists(template_paths[k])
          /\ fs[template_paths[k]] = NoStagesTemplate(template_paths[k])
    /\ summary.failed = 1
    /\ summary.validated = 1

\* the summary of the scenario: one failed, one passed
C7_ScenarioWitness ==
    /\ summary.printed
    /\ MissingStagesAndValid
    /\ summary.failed = 1
    /\ summary.passed = 1

-----------------------------------------------------------------------------
(* C9: one template after another, each with a result of its own (Spec) *)

CallOrder ==
    << "validate_metadata_json", "validate_pipeline_yaml", "validate_wiki_md",
       "validate_cross_file_consistency", "print_report" >>
CallIndex(op) == CHOOSE k \in DOMAIN CallOrder : CallOrder[k] = op

\* the paths are the supplied ones in the supplied order, or the discovered
\* directories in ascending order of name
PathsInOrder ==
    (pc # "main" /\ template_paths # << >>) =>
        IF argv # << >> THEN template_paths = argv
        ELSE /\ \A k \in 1..(Len(template_paths) - 1) :
                    StrLess(template_paths[k], template_paths[k + 1])
             /\ Range(template_paths) = { n \in DOMAIN fs : LooksLikeTemplate(fs[n]) }

\* the calls on one template follow the order of CallOrder and the first
\* call on the next template follows the print_report of the previous one
CallsInOrder ==
    /\ events # << >> => events[1].op = CallOrder[1]
    /\ \A k \in DOMAIN events :
          /\ events[k].at \in DOMAIN template_paths
          /\ events[k].path = template_paths[events[k].at]
          /\ PathExists(events[k].path)
    /\ \A k \in 1..(Len(events) - 1) :
          \/ /\ events[k + 1].at = events[k].at
             /\ CallIndex(events[k + 1].op) = CallIndex(events[k].op) + 1
          \/ /\ events[k].op = "print_report"
             /\ events[k + 1].op = CallOrder[1]
             /\ events[k + 1].at > events[k].at
             /\ \A j \in (events[k].at + 1)..(events[k + 1].at - 1) :
                    ~PathExists(template_paths[j])

\* each result kept is what validate_template yields for its template alone
ResultsOfTheirOwn ==
    /\ Len(results) <= Len(ExistingPaths)
    /\ results = [ k \in DOMAIN results |-> validate_template(fs[ExistingPaths[k]]).result ]

\* a result whose report is printed is never modified
ResultsKept ==
    \A k \in DOMAIN results : k \in DOMAIN results' /\ results'[k] = results[k]

\* C9: templates are processed one after another, in ascending name order
\* when discovered and in the supplied order otherwise; the four validators
\* run in the order metadata, pipeline, wiki, cross-file; a report is printed
\* before the next template's validation starts; each result holds only its
\* own template's messages and never changes once its report is printed.
C9_OneAfterAnother ==
    /\ [](PathsInOrder /\ CallsInOrder /\ ResultsOfTheirOwn)
    /\ [][ResultsKept]_vars

\* two discovered templates, both reported, the first with messages the
\* second does not have
C9_Witness ==
    /\ pc = "exit"
    /\ argv = << >>
    /\ Len(results) = 2
    /\ Len(events) = 10
    /\ HasErrors(results[1])
    /\ ~HasErrors(results[2])

-----------------------------------------------------------------------------
(* C3: validity of a ValidationResult (SpecResult) *)

\* C3: is_valid() holds exactly when there is no error; add_warning and
\* add_pass leave the errors and is_valid() as they are; add_error makes
\* is_valid() false, and it stays false, for no call removes an error; the
\* status line print_report prints is PASSED exactly when is_valid().
C3_Validity ==
    /\ [](pc = "collector" =>
             /\ is_valid(result) <=> result.errors = << >>
             /\ LastOp = "print_report" =>
                   out[Len(out)] = (IF result.errors = << >>
                                    THEN << "  Status: PASSED" >>
                                    ELSE << "  Status: FAILED" >>))
    /\ [][(pc = "collector" /\ LastOp' \in { "add_warning", "add_pass" }) =>
             /\ result'.errors = result.errors
             /\ is_valid(result') <=> is_valid(result)]_vars
    /\ [][(pc = "collector" /\ LastOp' = "add_error" /\ result' # result) =>
             ~is_valid(result')]_vars
    /\ [][(pc = "collector" /\ ~is_valid(result)) =>
             /\ ~is_valid(result')
             /\ Len(result'.errors) >= Len(result.errors)
             /\ SubSeq(result'.errors, 1, Len(result.errors)) = result.errors]_vars

\* a report printed for a result that holds an error, a warning and a pass
C3_Witness ==
    /\ pc = "collector"
    /\ LastOp = "print_report"
    /\ result.errors # << >>
    /\ result.warnings # << >>
    /\ result.passes # << >>
    /\ out[Len(out)] = << "  Status: FAILED" >>

-----------------------------------------------------------------------------
(* C6: the same command twice (SpecTwice) *)

\* C6: the second run on the unchanged directory prints what the first run
\* printed, chunk for chunk.
C6_SameTextTwice ==
    (run = 2 /\ pc = "exit") => out = prev_out

-----------------------------------------------------------------------------
(* C4: metadata.json is missing (SpecPipeline) *)

\* the messages a call added: what the lists of "after" hold beyond "before"
Added(before, after) ==
    [ errors   |-> SubSeq(after.errors, Len(before.errors) + 1, Len(after.errors)),
      warnings |-> SubSeq(after.warnings, Len(before.warnings) + 1, Len(after.warnings)),
      passes   |-> SubSeq(after.passes, Len(before.passes) + 1, Len(after.passes)) ]

\* what validate_pipeline_yaml does to the result validate_metadata_json left
PipelineCall(d) ==
    [ before |-> TemplateMetadata(d), after |-> TemplatePipeline(d, TemplateMetadata(d)) ]
WhatPipelineDid(call) ==
    [ added |-> Added(call.before.result, call.after.result),
      returned |-> call.after.pipeline,
      raised |-> call.after.raised ]

\* the metadata.json files put beside the pipeline file for comparison
PresentMetadataFiles ==
    { Parsed(MetadataDoc(T_my_agent)), Parsed(MetadataDoc(T_other)), SyntaxError,
      Parsed(DictFromPairs(<< << K_version, PyStr(T_1_0) >> >>)) }

MetadataMissing == fs[CurrentPath].metadata = Absent

OnlyMissingFileError(name) ==
    add_error(ValidationResult(name), << "metadata.json: File not found (required)" >>)

\* C4: when metadata.json is missing, validate_metadata_json returns None
\* and leaves exactly one error and nothing else in the result;
\* validate_pipeline_yaml is called next, and what it adds and returns is
\* what it adds and returns for the same pipeline.yaml beside a metadata.json
\* that exists.
C4_MissingMetadata ==
    /\ (LastOp = "validate_metadata_json" /\ MetadataMissing) =>
          /\ pc = "pipeline"
          /\ ~uncaught
          /\ metadata = PyNone
          /\ result = OnlyMissingFileError(fs[CurrentPath].name)
    /\ (LastOp = "validate_pipeline_yaml" /\ MetadataMissing) =>
          /\ Len(events) = 2
          /\ events[1].op = "validate_metadata_json"
          /\ \A m \in PresentMetadataFiles :
                WhatPipelineDid(PipelineCall([ fs[CurrentPath] EXCEPT !.metadata = m ]))
                = [ added |-> Added(OnlyMissingFileError(fs[CurrentPath].name), result),
                    returned |-> pipeline,
                    raised |-> uncaught ]

\* metadata.json is missing and validate_pipeline_yaml has returned a
\* document after adding an error, a warning and a pass
C4_Witness ==
    /\ LastOp = "validate_pipeline_yaml"
    /\ MetadataMissing
    /\ pipeline # PyNone
    /\ Len(result.errors) > 1
    /\ result.warnings # << >>
    /\ result.passes # << >>

-----------------------------------------------------------------------------
(* C5: duplicate stage names (SpecPipeline) *)

\* the pipeline file parses to a mapping whose 'pipeline' is a mapping whose
\* 'stages' is a list
HasStagesList(f) ==
    /\ f.st = "ok"
    /\ IsDict(f.doc)
    /\ PyIn(K_pipeline, f.doc)
    /\ IsDict(GetItem(f.doc, K_pipeline))
    /\ PyIn(K_stages, GetItem(f.doc, K_pipeline))
    /\ IsList(GetItem(GetItem(f.doc, K_pipeline), K_stages))

StagesOf(f) == GetItem(GetItem(f.doc, K_pipeline), K_stages).l

\* the 'name' of every stage that is a mapping and has one
NamedStages(stages) ==
    SelectSeq(stages, LAMBDA st : IsDict(st) /\ PyIn(K_name, st))
RecordedStageNames(stages) ==
    [ k \in DOMAIN NamedStages(stages) |-> GetItem(NamedStages(stages)[k], K_name) ]

\* the names that occur more than once
Repeated(names) ==
    { names[k] : k \in { j \in DOMAIN names :
                           \E i \in DOMAIN names : i # j /\ names[i] = names[j] } }

\* the texts that render a set of values, one per order of its elements
SetRenderings(S) ==
    { << "{" >> \o ReprList(order) \o << "}" >> :
        order \in { o \in [ 1..Cardinality(S) -> S ] :
                      \A i, j \in DOMAIN o : i # j => o[i] # o[j] } }

DuplicateStagesHead == "pipeline.yaml: Duplicate stage names: "
AllStageNamesUnique == << "pipeline.yaml: All stage names are unique" >>

\* C5: after validate_pipeline_yaml has run on a document with a 'stages'
\* list: if a recorded stage name occurs more than once, the result holds
\* exactly one duplicate-stage error, which renders exactly the set of the
\* repeated names, and no uniqueness pass; otherwise it holds no
\* duplicate-stage error and exactly one uniqueness pass.
C5_DuplicateStageNames ==
    (LastOp = "validate_pipeline_yaml" /\ HasStagesList(fs[CurrentPath].pipeline)) =>
        LET repeated == Repeated(RecordedStageNames(StagesOf(fs[CurrentPath].pipeline)))
        IN  IF repeated # { }
            THEN /\ Beginning(result.errors, DuplicateStagesHead) = 1
                 /\ \E text \in SetRenderings(repeated) :
                        Occurrences(result.errors, << DuplicateStagesHead >> \o text) = 1
                 /\ Occurrences(result.passes, AllStageNamesUnique) = 0
            ELSE /\ Beginning(result.errors, DuplicateStagesHead) = 0
                 /\ Occurrences(result.passes, AllStageNamesUnique) = 1

-----------------------------------------------------------------------------
(* C10: what validate_pipeline_yaml returns (SpecPipeline) *)

MissingPipelineSection == << "pipeline.yaml: Missing 'pipeline' section" >>
NoInputsSection == << "pipeline.yaml: No 'inputs' section defined" >>

\* the messages validate_pipeline_yaml may add before it looks for 'pipeline'
BeforeTheSection(m) ==
    \/ m \in { << "pipeline.yaml: Valid YAML syntax" >>,
               << "pipeline.yaml: 'version: 1' present" >>,
               << "pipeline.yaml: Missing 'version' field at top level" >> }
    \/ m[1] = "pipeline.yaml: Expected 'version: 1', got '"

AllBeforeTheSection(messages) ==
    \A k \in DOMAIN messages : BeforeTheSection(messages[k])

\* the inputs checks have run on the section: the warning that there is no
\* 'inputs', or the count of the inputs of a mapping
InputsChecked(section, added) ==
    IF ~PyIn(K_inputs, section)
    THEN Occurrences(added.warnings, NoInputsSection) = 1
    ELSE IsDict(GetItem(section, K_inputs)) =>
            Occurrences(added.passes,
                        << "pipeline.yaml: " >>
                        \o IntStr(Len(GetItem(section, K_inputs).k))
                        \o << " inputs defined" >>) = 1

ReturnsTheDocument(f, added) ==
    /\ ~uncaught
    /\ f.st = "ok"
    /\ pipeline = f.doc
    /\ IF ~PyIn(K_pipeline, f.doc)
       THEN /\ added.errors # << >>
            /\ added.errors[Len(added.errors)] = MissingPipelineSection
            /\ Occurrences(added.errors, MissingPipelineSection) = 1
            /\ AllBeforeTheSection(SubSeq(added.errors, 1, Len(added.errors) - 1))
            /\ AllBeforeTheSection(added.warnings)
            /\ AllBeforeTheSection(added.passes)
       ELSE InputsChecked(GetItem(f.doc, K_pipeline), added)

ReturnsNothing(added) ==
    /\ ~uncaught
    /\ pipeline = PyNone
    /\ Len(added.errors) = 1
    /\ added.warnings = << >>

PipelineReturn(f, added) ==
    IF f.st \in { "absent", "syntax_error" } \/ (f.st = "ok" /\ ~IsDict(f.doc))
    THEN ReturnsNothing(added)
    ELSE ReturnsTheDocument(f, added)

\* C10: validate_pipeline_yaml returns None, after adding exactly one error,
\* when pipeline.yaml is absent, has a syntax error or has a root that is no
\* mapping, and returns the parsed document in every other case; without a
\* 'pipeline' section it adds the error for that and nothing about stages,
\* steps or inputs; with the section, the inputs checks run whatever was
\* found in 'stages'.
C10_PipelineReturn ==
    LastOp = "validate_pipeline_yaml" =>
        PipelineReturn(fs[CurrentPath].pipeline,
                       Added(TemplateMetadata(fs[CurrentPath]).result, result))

-----------------------------------------------------------------------------
(* C8: a name that matches the directory (SpecMetadata) *)

\* metadata.json holds the directory's name with spaces for hyphens, the
\* description 'Does things.' and the version '1.0.0'
NamedAfterDirectory(d) ==
    /\ d.metadata.st = "ok"
    /\ d.metadata.doc = MetadataDoc(ExpectedName(d))

MetadataErrorHeads ==
    { "metadata.json: File not found (required)",
      "metadata.json: Invalid JSON syntax - ",
      "metadata.json: Missing required field '",
      "metadata.json: 'name' must be lowercase alphanumeric with spaces only. Got: '",
      "metadata.json: 'version' must follow semver (MAJOR.MINOR.PATCH). Got: '" }

NamingPass == << "metadata.json: 'name' follows naming conventions" >>
SemverPass == << "metadata.json: 'version' follows semver format" >>
DirectoryNamePass == << "Cross-file: metadata.json 'name' matches directory name" >>
NameMismatchHead == "metadata.json: 'name' should match directory name. Expected: '"

\* what the metadata validator leaves for such a template
MetadataAccepted(r) ==
    /\ \A k \in DOMAIN r.errors : r.errors[k][1] \notin MetadataErrorHeads
    /\ Occurrences(r.passes, NamingPass) = 1
    /\ Occurrences(r.passes, SemverPass) = 1
    /\ Beginning(r.warnings, NameMismatchHead) = 0

\* validate_template has called validate_metadata_json on the current path
\* and has not returned yet, or an exception ended it
InTemplate ==
    \/ pc \in { "pipeline", "wiki", "cross", "report" }
    \/ (pc = "exit" /\ uncaught)

\* C8 as the specification states it: for a template whose metadata 'name'
\* is the directory name with spaces for hyphens, the finished validation
\* holds no metadata error, one naming pass, one directory-name pass, no
\* mismatch warning and one semver pass.
C8_MatchingName ==
    (pc = "report" /\ NamedAfterDirectory(fs[CurrentPath])) =>
        /\ MetadataAccepted(result)
        /\ Occurrences(result.passes, DirectoryNamePass) = 1

\* C8, amended: for such a template whose name is made of lowercase
\* letters, digits and spaces, the result holds no metadata error, one
\* naming pass, no mismatch warning and one semver pass from the metadata
\* validator on; the directory-name pass is there, once, exactly when the
\* cross-file check has run and validate_pipeline_yaml had returned a
\* document, and not at all otherwise.
C8_MatchingNameAndPipeline ==
    (/\ InTemplate
     /\ NamedAfterDirectory(fs[CurrentPath])
     /\ MatchesNamePattern(ExpectedName(fs[CurrentPath]))) =>
        /\ MetadataAccepted(result)
        /\ Occurrences(result.passes, DirectoryNamePass)
               = (IF pc = "report" /\ pipeline # PyNone THEN 1 ELSE 0)

\* directory my-agent, name 'my agent', a pipeline.yaml that parses: the
\* directory-name pass is recorded
C8_Witness ==
    /\ pc = "report"
    /\ fs[CurrentPath].name = N_my_agent
    /\ NamedAfterDirectory(fs[CurrentPath])
    /\ pipeline # PyNone
    /\ Occurrences(result.passes, DirectoryNamePass) = 1
    /\ Occurrences(result.passes, NamingPass) = 1

\* the same template without pipeline.yaml: no directory-name pass
C8_WitnessNoPipeline ==
    /\ pc = "report"
    /\ NamedAfterDirectory(fs[CurrentPath])
    /\ MatchesNamePattern(ExpectedName(fs[CurrentPath]))
    /\ pipeline = PyNone
    /\ Occurrences(result.passes, DirectoryNamePass) = 0

=============================================================================
